---- MODULE Spec2Model ----
(***************************************************************************)
(* Model of the performance_timing crate (src/src/lib.rs): the known       *)
(* latency loop const_cycle_loop, the time stamp counter and the            *)
(* calibration CPUInfo::get_frequency_hz, the sampling pair                 *)
(* MeasureRegion / MeasureSample, and measure_function_perf.                *)
(*                                                                         *)
(* Four specifications share the variables:                                 *)
(*   Spec       a caller driving one MeasureRegion through blocks           *)
(*   SpecLoop   calls of const_cycle_loop                                   *)
(*   SpecPerf   measure_function_perf, with the fairness of a running       *)
(*              sequential program                                          *)
(*   SpecCalib  the round trip of tests::test_tsc_scaling                   *)
(*                                                                         *)
(* TLC's integers are 32 bits wide.  Values of the u64 argument of          *)
(* const_cycle_loop are therefore kept as four 16-bit limbs; time stamps    *)
(* and sample sums stay far below 2^31 in every run explored, where the     *)
(* u64 additions and subtractions of the code cannot wrap.  f32 values      *)
(* are modelled bit-exactly (24-bit significand, round to nearest even)     *)
(* inside the normal range; exponent overflow and subnormals do not occur   *)
(* for the magnitudes explored.                                             *)
(***************************************************************************)
EXTENDS Integers, Sequences, FiniteSets, TLC

VARIABLES
    tsc,        \* the hardware time stamp counter read by RDTSC
    ticks,      \* history: number of advances of the counter so far
    region,     \* the MeasureRegion: region_name, dump_on_drop, num_samples, sum_samples
    rstate,     \* "alive" | "dropped": lifetime of the region
    live,       \* the MeasureSample objects alive, in creation order
    cpc,        \* caller position: "outside" | "stmt" | "body"
    printed,    \* lines written by MeasureRegion::drop
    lastOp,     \* history: the operation performed last
    retAvg,     \* history: value returned by the last get_average_sample
    retTotal,   \* history: value returned by the last get_total_time
    durations,  \* history: the durations recorded, in order
    opened,     \* history: number of get_sample calls
    bodyWork,   \* history: counter advance over the work of the latest block
    earlyDrop,  \* history: the block released its sample with an explicit drop
    foldedAtEnd,\* history: the end of the block released a sample
    lcycles,    \* const_cycle_loop: the local `cycles` (u64 limbs)
    larg,       \* const_cycle_loop: the argument of the call (u64 limbs)
    lpc,        \* const_cycle_loop: "idle" | "loop" | "returned" | "panicked"
    liters,     \* history: loop bodies executed by the current call
    lret,       \* const_cycle_loop: the value returned (u64 limbs)
    maskHit,    \* history: the mask changed the counter in the current call
    ppc,        \* measure_function_perf: "idle" | "while" | "sample" | "for" | "drop" | "return" | "returned"
    pcalls,     \* measure_function_perf: passes of the `for` loop done in the current sample
    pret,       \* measure_function_perf: the value returned
    fcalls,     \* history: calls of f made so far
    pzero,      \* history: a completed sample had duration 0
    refc,       \* calibration: reference cycles executed so far
    ratio,      \* calibration: <<n, d>>, the counter ticks n times per d reference cycles
    kpc,        \* test_tsc_scaling: "idle" | "warmup" | "open" | "run" | "drop" | "calibrate" | "compare" | "passed" | "failed"
    kcnt,       \* test_tsc_scaling: ckl_cnt
    krounds,    \* test_tsc_scaling: number of samples to take
    kinfo,      \* test_tsc_scaling: cpu_info, the FreqInfo returned
    kdelta,     \* history: ts_e - ts_s of the calibration
    kmeasured   \* test_tsc_scaling: measured_cycles

regionVars == <<tsc, ticks, region, rstate, live, cpc, printed, lastOp, retAvg, retTotal,
                durations, opened, bodyWork, earlyDrop, foldedAtEnd>>
loopVars == <<lcycles, larg, lpc, liters, lret, maskHit>>
perfVars == <<ppc, pcalls, pret, fcalls, pzero>>
calibVars == <<refc, ratio, kpc, kcnt, krounds, kinfo, kdelta, kmeasured>>
vars == <<regionVars, loopVars, perfVars, calibVars>>


(* ---- IEEE-754 binary32 (Rust f32), round to nearest, ties to even ---- *)
(* A finite value is (-1)^s * m * 2^e with m = 0 or 2^23 <= m < 2^24.   *)
Pow2(n) == 2 ^ n
MantLo == Pow2(23)
MantHi == Pow2(24)

F32NaN == [k |-> "nan", s |-> 0, m |-> 0, e |-> 0]
F32Inf(s) == [k |-> "inf", s |-> s, m |-> 0, e |-> 0]
F32Zero(s) == [k |-> "fin", s |-> s, m |-> 0, e |-> 0]
F32Fin(s, m, e) == [k |-> "fin", s |-> s, m |-> m, e |-> e]

IsZero(a) == a.k = "fin" /\ a.m = 0
XorSign(a, b) == (a.s + b.s) % 2

(* Number of low bits to discard so that n fits 24 bits (n < 2^31). *)
RECURSIVE ExcessBits(_)
ExcessBits(n) == IF n < MantHi THEN 0 ELSE 1 + ExcessBits(n \div 2)

(* Number of left shifts that bring 0 < n < 2^24 into [2^23, 2^24). *)
RECURSIVE LeadShift(_)
LeadShift(n) == IF n >= MantLo THEN 0 ELSE 1 + LeadShift(2 * n)

(* q with `half` = half an ulp and r the discarded part: ties to even. *)
RoundUp(q, r, half) == r > half \/ (r = half /\ q % 2 = 1)

(* The f32 nearest to the exact value n * 2^e, 0 <= n < 2^31. *)
F32Round(s, n, e) ==
    IF n = 0 THEN F32Zero(s)
    ELSE IF n < MantHi
    THEN LET k == LeadShift(n) IN F32Fin(s, n * Pow2(k), e - k)
    ELSE LET k == ExcessBits(n)
             q == n \div Pow2(k)
             r == n % Pow2(k)
             q1 == IF RoundUp(q, r, Pow2(k - 1)) THEN q + 1 ELSE q
         IN  IF q1 = MantHi THEN F32Fin(s, MantLo, e + k + 1)
             ELSE F32Fin(s, q1, e + k)

(* `n as f32` for an unsigned integer n. *)
U64ToF32(n) == CHOOSE f \in {F32Round(0, x, 0) : x \in {n}} : TRUE

(* Long division, up to six bits at a time: <<quotient, remainder>> of *)
(* (q * mb + r) * 2^sh by mb, for r < mb < 2^24.                       *)
RECURSIVE LongDiv(_, _, _, _)
LongDiv(q, r, mb, sh) ==
    IF sh = 0 THEN <<q, r>>
    ELSE LET c == IF sh >= 6 THEN 6 ELSE sh
             n == r * Pow2(c)
         IN  LongDiv(q * Pow2(c) + n \div mb, n % mb, mb, sh - c)

F32DivValues(a, b) ==
    IF a.k = "nan" \/ b.k = "nan" THEN F32NaN
    ELSE IF a.k = "inf" THEN (IF b.k = "inf" THEN F32NaN ELSE F32Inf(XorSign(a, b)))
    ELSE IF b.k = "inf" THEN F32Zero(XorSign(a, b))
    ELSE IF IsZero(b) THEN (IF IsZero(a) THEN F32NaN ELSE F32Inf(XorSign(a, b)))
    ELSE IF IsZero(a) THEN F32Zero(XorSign(a, b))
    ELSE LET sh == IF a.m >= b.m THEN 23 ELSE 24
             qr == LongDiv(a.m \div b.m, a.m % b.m, b.m, sh)
             q == qr[1]
             r == qr[2]
             q1 == IF 2 * r > b.m \/ (2 * r = b.m /\ q % 2 = 1) THEN q + 1 ELSE q
         IN  IF q1 = MantHi THEN F32Fin(XorSign(a, b), MantLo, a.e - b.e - sh + 1)
             ELSE F32Fin(XorSign(a, b), q1, a.e - b.e - sh)

(* a / b.  The operands are evaluated once, then divided. *)
F32Div(a, b) == CHOOSE q \in {F32DivValues(x, y) : x \in {a}, y \in {b}} : TRUE

(* The 48-bit product of two 24-bit mantissas as <<hi, lo>>, hi*2^24 + lo. *)
MulWide(x, y) ==
    LET h == Pow2(12)
        a1 == x \div h
        b1 == x % h
        a2 == y \div h
        b2 == y % h
        mid == a1 * b2 + a2 * b1
        low == (mid % h) * h + b1 * b2
    IN  <<a1 * a2 + mid \div h + low \div MantHi, low % MantHi>>

F32MulValues(a, b) ==
    IF a.k = "nan" \/ b.k = "nan" THEN F32NaN
    ELSE IF a.k = "inf" \/ b.k = "inf"
    THEN (IF IsZero(a) \/ IsZero(b) THEN F32NaN ELSE F32Inf(XorSign(a, b)))
    ELSE IF IsZero(a) \/ IsZero(b) THEN F32Zero(XorSign(a, b))
    ELSE LET p == MulWide(a.m, b.m)
             top == p[1] >= MantLo
             q == IF top THEN p[1] ELSE 2 * p[1] + p[2] \div MantLo
             r == IF top THEN p[2] ELSE p[2] % MantLo
             half == IF top THEN MantLo ELSE Pow2(22)
             e == a.e + b.e + (IF top THEN 24 ELSE 23)
             q1 == IF RoundUp(q, r, half) THEN q + 1 ELSE q
         IN  IF q1 = MantHi THEN F32Fin(XorSign(a, b), MantLo, e + 1)
             ELSE F32Fin(XorSign(a, b), q1, e)

(* a * b *)
F32Mul(a, b) == CHOOSE p \in {F32MulValues(x, y) : x \in {a}, y \in {b}} : TRUE

(* |a| < |b| for finite a, b. *)
MagLt(a, b) ==
    IF b.m = 0 THEN FALSE
    ELSE IF a.m = 0 THEN TRUE
    ELSE a.e < b.e \/ (a.e = b.e /\ a.m < b.m)

(* x shifted right by d bits, the bits shifted out OR-ed into bit 0. *)
ShiftSticky(x, d) ==
    IF d >= 31 THEN (IF x = 0 THEN 0 ELSE 1)
    ELSE LET q == x \div Pow2(d)
         IN  IF x % Pow2(d) = 0 \/ q % 2 = 1 THEN q ELSE q + 1

(* Sum of finite big and small with |big| >= |small|, three guard bits. *)
AddOrdered(big, small) ==
    IF small.m = 0 THEN big
    ELSE LET x == 8 * big.m
             y == ShiftSticky(8 * small.m, big.e - small.e)
         IN  IF big.s = small.s THEN F32Round(big.s, x + y, big.e - 3)
             ELSE IF x = y THEN F32Zero(0)
             ELSE F32Round(big.s, x - y, big.e - 3)

F32Neg(a) == IF a.k = "nan" THEN a ELSE [a EXCEPT !.s = 1 - a.s]

F32AddValues(a, b) ==
    IF a.k = "nan" \/ b.k = "nan" THEN F32NaN
    ELSE IF a.k = "inf"
    THEN (IF b.k = "inf" /\ b.s # a.s THEN F32NaN ELSE a)
    ELSE IF b.k = "inf" THEN b
    ELSE IF IsZero(a) /\ IsZero(b) THEN F32Zero(IF a.s = 1 /\ b.s = 1 THEN 1 ELSE 0)
    ELSE IF MagLt(a, b) THEN AddOrdered(b, a) ELSE AddOrdered(a, b)

(* a + b *)
F32Add(a, b) == CHOOSE t \in {F32AddValues(x, y) : x \in {a}, y \in {b}} : TRUE

F32Sub(a, b) == F32Add(a, F32Neg(b))

F32Abs(a) == IF a.k = "nan" THEN a ELSE [a EXCEPT !.s = 0]

(* a < b, false when either is NaN. *)
F32Lt(a, b) ==
    IF a.k = "nan" \/ b.k = "nan" THEN FALSE
    ELSE IF a.k = "inf" THEN a.s = 1 /\ ~(b.k = "inf" /\ b.s = 1)
    ELSE IF b.k = "inf" THEN b.s = 0
    ELSE IF IsZero(a) /\ IsZero(b) THEN FALSE
    ELSE IF a.s # b.s THEN a.s = 1
    ELSE IF a.s = 0 THEN MagLt(a, b) ELSE MagLt(b, a)

(* ---- bounds of the exploration ---- *)
MaxSamples == 3
MaxTicks == 3

(* Counter values at which the caller may start. *)
InitTsc == {0, 3}
(* Counter advances between two events: one tick, or just over 2^24 ticks *)
(* (the first integer an f32 cannot hold).                                *)
TickSteps == {1, Pow2(24) + 1}
RegionNames == {"loop"}
(* `let _s = r.get_sample();` binds the sample to the block;              *)
(* `let _ = r.get_sample();` binds nothing: the value is a temporary of   *)
(* the statement.                                                         *)
Patterns == {"_s", "_"}

RECURSIVE SeqSum(_)
SeqSum(q) == IF q = <<>> THEN 0 ELSE q[1] + SeqSum(Tail(q))

(* ---- CPUInfo::get_time_stamp ---- *)
GetTimeStamp == tsc

(* ---- MeasureRegion ---- *)
MeasureRegionNew ==
    [region_name |-> "default_name", dump_on_drop |-> FALSE,
     num_samples |-> 0, sum_samples |-> 0]

MeasureRegionNewNamed(name, dump) ==
    [region_name |-> name, dump_on_drop |-> dump,
     num_samples |-> 0, sum_samples |-> 0]

(* Mutant: the division done on the integers, before the conversion. *)
GetAverageSampleIntDiv(r) ==
    IF r.num_samples = 0 THEN F32NaN ELSE U64ToF32(r.sum_samples \div r.num_samples)

(* Mutant: an empty region answers 0.0 instead of dividing 0.0 by 0.0. *)
GetAverageSampleGuarded(r) ==
    IF r.num_samples = 0 THEN F32Zero(0)
    ELSE F32Div(U64ToF32(r.sum_samples), U64ToF32(r.num_samples))

GetAverageSample(r) == F32Div(U64ToF32(r.sum_samples), U64ToF32(r.num_samples))

GetTotalTime(r) == r.sum_samples

(* Mutant: the sample is recorded twice. *)
RecordSampleTwice(r, sample) ==
    [r EXCEPT !.num_samples = @ + 2, !.sum_samples = @ + 2 * sample]

(* Mutant: the sum is overwritten by the sample instead of increased. *)
RecordSampleOverwrite(r, sample) ==
    [r EXCEPT !.num_samples = @ + 1, !.sum_samples = sample]

RecordSample(r, sample) ==
    [r EXCEPT !.num_samples = @ + 1, !.sum_samples = @ + sample]

(* ---- MeasureSample ---- *)
MeasureSampleNew == [start_time |-> GetTimeStamp, end_time |-> 0]

GetValue(s) == s.end_time - s.start_time

(* Drop for MeasureSample: stamp the end once, then record the value. *)
StampEnd(s) == IF s.end_time = 0 THEN [s EXCEPT !.end_time = GetTimeStamp] ELSE s

RECURSIVE DropAll(_, _)
(* The samples of q dropped in reverse order of creation into region r. *)
DropAll(r, q) ==
    IF q = <<>> THEN r
    ELSE DropAll(RecordSample(r, GetValue(StampEnd(q[Len(q)]))), SubSeq(q, 1, Len(q) - 1))

RECURSIVE DroppedValues(_)
DroppedValues(q) ==
    IF q = <<>> THEN <<>>
    ELSE <<GetValue(StampEnd(q[Len(q)]))>> \o DroppedValues(SubSeq(q, 1, Len(q) - 1))

(* `parent: &'a mut MeasureRegion`: while a sample is alive it holds the *)
(* only reference to the region; nothing else can call or read it.       *)
(* Mutant: a region shared without the exclusive borrow. *)
BorrowUnchecked == TRUE

BorrowFree == live = <<>>

(* ---- the caller ---- *)
LoopIdle ==
    /\ lcycles = <<0, 0, 0, 0>> /\ larg = <<0, 0, 0, 0>> /\ lpc = "idle"
    /\ liters = 0 /\ lret = <<0, 0, 0, 0>> /\ maskHit = FALSE

FreqInfoNone == [frequency |-> F32Zero(0), tsc_scaling |-> F32Zero(0)]

CalibIdle ==
    /\ refc = 0 /\ ratio = <<1, 1>> /\ kpc = "idle" /\ kcnt = 0 /\ krounds = 0
    /\ kinfo = FreqInfoNone /\ kdelta = 0 /\ kmeasured = F32Zero(0)

PerfIdle ==
    ppc = "idle" /\ pcalls = 0 /\ pret = F32Zero(0) /\ fcalls = 0 /\ pzero = FALSE

Init ==
    /\ tsc \in InitTsc
    /\ ticks = 0
    /\ region \in {MeasureRegionNew}
                  \cup {MeasureRegionNewNamed(n, d) : n \in RegionNames, d \in BOOLEAN}
    /\ rstate = "alive"
    /\ live = <<>>
    /\ cpc = "outside"
    /\ printed = <<>>
    /\ lastOp = "new"
    /\ retAvg = F32Zero(0)
    /\ retTotal = 0
    /\ durations = <<>>
    /\ opened = 0
    /\ bodyWork = 0
    /\ earlyDrop = FALSE
    /\ foldedAtEnd = FALSE
    /\ LoopIdle
    /\ PerfIdle
    /\ CalibIdle

(* The counter is free running: it advances whatever the program does. *)
Tick ==
    /\ ticks < MaxTicks
    /\ \E d \in TickSteps :
          /\ tsc' = tsc + d
          /\ bodyWork' = IF cpc = "body" THEN bodyWork + d ELSE bodyWork
    /\ ticks' = ticks + 1
    /\ UNCHANGED <<region, rstate, live, cpc, printed, lastOp, retAvg, retTotal,
                   durations, opened, earlyDrop, foldedAtEnd>>
    /\ UNCHANGED <<loopVars, perfVars, calibVars>>

(* `let <pat> = region.get_sample();` as the first statement of a block, or *)
(* as a later statement of the block once no sample is alive.              *)
GetSample(pat) ==
    /\ rstate = "alive" /\ cpc # "stmt"
    /\ BorrowFree
    /\ opened < MaxSamples
    /\ live' = Append(live, MeasureSampleNew)
    /\ opened' = opened + 1
    /\ cpc' = IF pat = "_" THEN "stmt" ELSE "body"
    /\ bodyWork' = 0
    /\ earlyDrop' = FALSE
    /\ foldedAtEnd' = FALSE
    /\ lastOp' = "get_sample"
    /\ UNCHANGED <<tsc, ticks, region, rstate, printed, retAvg, retTotal, durations>>
    /\ UNCHANGED <<loopVars, perfVars, calibVars>>

(* End of a `let _ = ...;` statement: its temporary is dropped there. *)
DropTemporary ==
    /\ cpc = "stmt"
    /\ region' = DropAll(region, live)
    /\ durations' = durations \o DroppedValues(live)
    /\ live' = <<>>
    /\ cpc' = "body"
    /\ bodyWork' = 0
    /\ lastOp' = "drop_sample"
    /\ UNCHANGED <<tsc, ticks, rstate, printed, retAvg, retTotal, opened, earlyDrop, foldedAtEnd>>
    /\ UNCHANGED <<loopVars, perfVars, calibVars>>

(* `drop(_s);` inside the block. *)
DropExplicit ==
    /\ cpc = "body" /\ live # <<>>
    /\ region' = DropAll(region, live)
    /\ durations' = durations \o DroppedValues(live)
    /\ live' = <<>>
    /\ earlyDrop' = TRUE
    /\ lastOp' = "drop_sample"
    /\ UNCHANGED <<tsc, ticks, rstate, cpc, printed, retAvg, retTotal, opened, bodyWork, foldedAtEnd>>
    /\ UNCHANGED <<loopVars, perfVars, calibVars>>

(* The block ends (its last statement, a return, an unwinding panic): the *)
(* locals still alive are dropped.                                        *)
EndBlock ==
    /\ cpc = "body"
    /\ region' = DropAll(region, live)
    /\ durations' = durations \o DroppedValues(live)
    /\ foldedAtEnd' = (live # <<>>)
    /\ live' = <<>>
    /\ cpc' = "outside"
    /\ lastOp' = "end_block"
    /\ UNCHANGED <<tsc, ticks, rstate, printed, retAvg, retTotal, opened, bodyWork, earlyDrop>>
    /\ UNCHANGED <<loopVars, perfVars, calibVars>>

CallGetAverageSample ==
    /\ rstate = "alive" /\ cpc # "stmt"
    /\ BorrowFree
    /\ retAvg' = GetAverageSample(region)
    /\ lastOp' = "get_average_sample"
    /\ UNCHANGED <<tsc, ticks, region, rstate, live, cpc, printed, retTotal, durations, opened,
                   bodyWork, earlyDrop, foldedAtEnd>>
    /\ UNCHANGED <<loopVars, perfVars, calibVars>>

CallGetTotalTime ==
    /\ rstate = "alive" /\ cpc # "stmt"
    /\ BorrowFree
    /\ retTotal' = GetTotalTime(region)
    /\ lastOp' = "get_total_time"
    /\ UNCHANGED <<tsc, ticks, region, rstate, live, cpc, printed, retAvg, durations, opened,
                   bodyWork, earlyDrop, foldedAtEnd>>
    /\ UNCHANGED <<loopVars, perfVars, calibVars>>

(* Drop for MeasureRegion, at the end of the scope that owns it. *)
DropRegion ==
    /\ rstate = "alive" /\ cpc = "outside"
    /\ BorrowFree
    /\ rstate' = "dropped"
    /\ printed' = IF region.dump_on_drop
                  THEN Append(printed, <<region.region_name, GetAverageSample(region)>>)
                  ELSE printed
    /\ lastOp' = "drop_region"
    /\ UNCHANGED <<tsc, ticks, region, live, cpc, retAvg, retTotal, durations, opened,
                   bodyWork, earlyDrop, foldedAtEnd>>
    /\ UNCHANGED <<loopVars, perfVars, calibVars>>

Next ==
    \/ Tick
    \/ \E pat \in Patterns : GetSample(pat)
    \/ DropTemporary
    \/ DropExplicit
    \/ EndBlock
    \/ CallGetAverageSample
    \/ CallGetTotalTime
    \/ DropRegion

Spec == Init /\ [][Next]_vars
(***************************************************************************)
(* Claims about MeasureRegion / MeasureSample, checked under Spec.         *)
(***************************************************************************)
Completed == Len(durations)
Total == SeqSum(durations)

(* The f32 value f is exactly the rational p / q (p >= 0, q > 0). *)
F32IsRatio(f, p, q) ==
    /\ f.k = "fin"
    /\ IF f.m = 0 THEN p = 0
       ELSE /\ f.s = 0
            /\ IF f.e >= 0 THEN p % q = 0 /\ f.m * Pow2(f.e) = p \div q
               ELSE p * Pow2(-f.e) = f.m * q

C4_FoldedOnce ==
    /\ region.num_samples = Completed
    /\ region.sum_samples = Total
    /\ opened = Completed + Len(live)

C4_Witness ==
    /\ Completed = 3 /\ lastOp = "end_block" /\ foldedAtEnd /\ Total > 0

(* C5: at most one sample is alive against the region; a sample is opened, *)
(* the counters are read and the region is dropped only while none is.     *)
C5_OneSampleAlive ==
    /\ Len(live) <= 1
    /\ lastOp = "get_sample" => Len(live) = 1
    /\ lastOp \in {"get_average_sample", "get_total_time", "drop_region"} => live = <<>>

C5_Witness == Len(live) = 1 /\ Completed >= 1 /\ lastOp = "get_sample"

(* C6: with no completed sample get_average_sample() returns NaN, nothing  *)
(* halts and both counters stay 0; dropping such a region with             *)
(* dump_on_drop logs that NaN.                                             *)
C6_EmptyAverageIsNaN ==
    /\ (lastOp = "get_average_sample" /\ Completed = 0) =>
          /\ retAvg = F32NaN
          /\ rstate = "alive"
          /\ region.num_samples = 0 /\ region.sum_samples = 0
    /\ (lastOp = "drop_region" /\ Completed = 0) =>
          /\ region.num_samples = 0 /\ region.sum_samples = 0
          /\ printed = IF region.dump_on_drop
                       THEN <<<<region.region_name, F32NaN>>>> ELSE <<>>

C6_Witness ==
    /\ lastOp = "drop_region" /\ Completed = 0 /\ region.dump_on_drop
    /\ retAvg.k = "nan" /\ Len(printed) = 1

(* C8: num_samples and sum_samples never decrease, only the release of a   *)
(* sample changes them, and the two reads leave them alone.                *)
C8_CountersMonotone ==
    [][/\ region'.num_samples >= region.num_samples
       /\ region'.sum_samples >= region.sum_samples
       /\ (region' # region) => Len(durations') > Len(durations)
       /\ (retAvg' # retAvg \/ retTotal' # retTotal) => region' = region]_vars

C8_Witness ==
    /\ Completed >= 2 /\ lastOp = "get_total_time" /\ retTotal > 0
    /\ durations[Completed] = 0

(* C9: a sample opened at the top of a block stays alive to the end of the *)
(* block: when work ran in the block, the sample is released at its end    *)
(* and the duration recorded covers the counter advance over that work.    *)
C9_AliveToBlockEnd ==
    (lastOp = "end_block" /\ ~earlyDrop /\ bodyWork > 0) =>
        /\ foldedAtEnd
        /\ durations[Completed] >= bodyWork
(***************************************************************************)
(* const_cycle_loop.  A u64 is <<l0, l1, l2, l3>>, 16-bit limbs, least     *)
(* significant first.                                                      *)
(***************************************************************************)
MaxIters == 20

Limb == Pow2(16)
U64(n) == <<n % Limb, n \div Limb, 0, 0>>
U64Zero == <<0, 0, 0, 0>>

(* a < b *)
U64Lt(a, b) ==
    \E i \in 1..4 : a[i] < b[i] /\ \A j \in (i + 1)..4 : a[j] = b[j]

(* a % 4 *)
U64Rem4(a) == a[1] % 4

(* a / 2 *)
U64Half(a) ==
    [i \in 1..4 |-> a[i] \div 2 + (IF i < 4 THEN (a[i + 1] % 2) * Pow2(15) ELSE 0)]

(* a - 1, for a > 0 *)
U64Dec(a) ==
    LET low == CHOOSE i \in 1..4 : a[i] > 0 /\ \A j \in 1..(i - 1) : a[j] = 0
    IN  [i \in 1..4 |-> IF i < low THEN Limb - 1 ELSE IF i = low THEN a[i] - 1 ELSE a[i]]

RECURSIVE BitAnd(_, _)
BitAnd(x, y) ==
    IF x = 0 \/ y = 0 THEN 0
    ELSE (x % 2) * (y % 2) + 2 * BitAnd(x \div 2, y \div 2)

(* a & b *)
U64And(a, b) == [i \in 1..4 |-> BitAnd(a[i], b[i])]

(* 0xFFFFFFFF, the bound of the second assertion *)
CyclesLimit == <<65535, 65535, 0, 0>>

(* Mutant: a mask that clears bit 0. *)
LoopMaskEven == <<65534, 65535, 1792, 0>>

(* 0x700FFFFFFFF, the mask of the loop body *)
LoopMask == <<65535, 65535, 1792, 0>>

(* Mutant: only the divisibility is asserted. *)
ArgsAcceptedNoLimit(c) == U64Rem4(c) = 0

(* assert_eq!(cycles % 4, 0); assert!(cycles < 0xFFFFFFFFu64); *)
ArgsAccepted(c) == U64Rem4(c) = 0 /\ U64Lt(c, CyclesLimit)

(* Arguments tried: everything up to 2 * MaxIters, and values around 2^32. *)
CycleArgs ==
    {U64(n) : n \in 0..(2 * MaxIters)}
    \cup {<<65532, 65535, 0, 0>>,           \* 0xFFFFFFFC
          <<65534, 65535, 0, 0>>,           \* 0xFFFFFFFE
          <<65535, 65535, 0, 0>>,           \* 0xFFFFFFFF
          <<0, 0, 1, 0>>,                   \* 0x100000000
          <<4, 0, 1, 0>>,                   \* 0x100000004
          <<0, 0, 256, 0>>,                 \* 0x10000000000
          <<65532, 65535, 65535, 65535>>}   \* 0xFFFFFFFFFFFFFFFC

RegionIdle ==
    /\ tsc = 0 /\ ticks = 0
    /\ region = MeasureRegionNew /\ rstate = "alive" /\ live = <<>>
    /\ cpc = "outside" /\ printed = <<>> /\ lastOp = "new"
    /\ retAvg = F32Zero(0) /\ retTotal = 0 /\ durations = <<>> /\ opened = 0
    /\ bodyWork = 0 /\ earlyDrop = FALSE /\ foldedAtEnd = FALSE

InitLoop == RegionIdle /\ LoopIdle /\ PerfIdle /\ CalibIdle

(* Entry of const_cycle_loop(c): the assertions, then cycles = cycles / 2. *)
LoopCall(c) ==
    /\ lpc \in {"idle", "returned"}
    /\ larg' = c
    /\ liters' = 0
    /\ maskHit' = FALSE
    /\ IF ArgsAccepted(c)
       THEN lcycles' = U64Half(c) /\ lpc' = "loop"
       ELSE lcycles' = c /\ lpc' = "panicked"
    /\ UNCHANGED lret
    /\ UNCHANGED <<regionVars, perfVars, calibVars>>

(* One pass of the body: cycles = cycles - 1; cycles = cycles & mask. *)
LoopIter ==
    /\ lpc = "loop" /\ lcycles # U64Zero
    /\ liters < MaxIters
    /\ LET dec == U64Dec(lcycles)
           masked == U64And(dec, LoopMask)
       IN  /\ lcycles' = masked
           /\ maskHit' = (maskHit \/ masked # dec)
    /\ liters' = liters + 1
    /\ UNCHANGED <<larg, lpc, lret>>
    /\ UNCHANGED <<regionVars, perfVars, calibVars>>

(* The loop test fails: return cycles. *)
LoopReturn ==
    /\ lpc = "loop" /\ lcycles = U64Zero
    /\ lret' = lcycles
    /\ lpc' = "returned"
    /\ UNCHANGED <<lcycles, larg, liters, maskHit>>
    /\ UNCHANGED <<regionVars, perfVars, calibVars>>

NextLoop ==
    \/ \E c \in CycleArgs : LoopCall(c)
    \/ LoopIter
    \/ LoopReturn

(* A call that has started keeps running. *)
SpecLoop ==
    InitLoop /\ [][NextLoop]_vars /\ WF_vars(LoopIter) /\ WF_vars(LoopReturn)

(* ---- claims about const_cycle_loop, checked under SpecLoop ---- *)
DivisibleBy4(c) == c[1] % 4 = 0
BelowLimit(c) == c[3] = 0 /\ c[4] = 0 /\ ~(c[1] = Limb - 1 /\ c[2] = Limb - 1)
ValidCycles(c) == DivisibleBy4(c) /\ BelowLimit(c)
(* c / 2 as an integer, for c < 2^32 *)
HalfOf(c) == c[1] \div 2 + Pow2(15) * c[2]
Started == lpc \in {"loop", "returned", "panicked"}

(* C1: the call panics, before any pass of the body, exactly for the       *)
(* arguments not divisible by 4 or >= 2^32 - 1.                            *)
C1_PanicsIffInvalid ==
    /\ lpc = "panicked" => ~ValidCycles(larg) /\ liters = 0 /\ lcycles = larg
    /\ lpc \in {"loop", "returned"} => ValidCycles(larg)
    /\ (Started /\ ~ValidCycles(larg)) => lpc = "panicked"

C1_Witness == lpc = "panicked" /\ larg = <<0, 0, 1, 0>>

(* C2: for a valid argument the call returns, after exactly cycles / 2     *)
(* passes of the body, none of which the mask changed, and the value       *)
(* returned is 0 on every call.                                            *)
C2_Passes ==
    /\ lpc \in {"loop", "returned"} =>
          /\ ~maskHit
          /\ lcycles[3] = 0 /\ lcycles[4] = 0
          /\ lcycles[1] + Limb * lcycles[2] + liters = HalfOf(larg)
    /\ lpc = "returned" => lret = U64Zero /\ liters = HalfOf(larg)

C2_TerminatesWithZero ==
    /\ []C2_Passes
    /\ \A n \in 0..(2 * MaxIters) :
          (lpc = "loop" /\ larg = U64(n)) ~> (lpc = "returned" /\ larg = U64(n))

C2_Witness == lpc = "returned" /\ larg = U64(2 * MaxIters) /\ liters = MaxIters
(***************************************************************************)
(* measure_function_perf(f).  Time passes only inside the calls of f.      *)
(***************************************************************************)
MaxPerfSamples == 4

(* let min_test: usize = 100; *)
MinTest == 100
(* let min_bench_time: u64 = 10_000_000; *)
MinBenchTime == 10000000

(* Counter advance during one call of f: none, or a quarter of the goal. *)
FSteps == {0, MinBenchTime \div 4}

InitPerf ==
    /\ tsc = 0 /\ ticks = 0
    /\ region = MeasureRegionNew /\ rstate = "alive" /\ live = <<>>
    /\ cpc = "outside" /\ printed = <<>> /\ lastOp = "new"
    /\ retAvg = F32Zero(0) /\ retTotal = 0 /\ durations = <<>> /\ opened = 0
    /\ bodyWork = 0 /\ earlyDrop = FALSE /\ foldedAtEnd = FALSE
    /\ LoopIdle /\ CalibIdle
    /\ ppc = "while" /\ pcalls = 0 /\ pret = F32Zero(0) /\ fcalls = 0 /\ pzero = FALSE

perfFrame == <<ticks, rstate, cpc, printed, lastOp, retAvg, durations, opened,
               bodyWork, earlyDrop, foldedAtEnd>>

(* while m.get_total_time() < min_bench_time *)
PerfWhile ==
    /\ ppc = "while"
    /\ BorrowFree
    /\ retTotal' = GetTotalTime(region)
    /\ ppc' = IF GetTotalTime(region) < MinBenchTime THEN "sample" ELSE "return"
    /\ UNCHANGED <<tsc, region, live, pcalls, pret, fcalls, pzero>>
    /\ UNCHANGED <<perfFrame, loopVars, calibVars>>

(* let _s = m.get_sample(); *)
PerfGetSample ==
    /\ ppc = "sample"
    /\ BorrowFree
    /\ region.num_samples < MaxPerfSamples
    /\ live' = Append(live, MeasureSampleNew)
    /\ pcalls' = 0
    /\ ppc' = "for"
    /\ UNCHANGED <<tsc, region, retTotal, pret, fcalls, pzero>>
    /\ UNCHANGED <<perfFrame, loopVars, calibVars>>

(* for _ in 0..min_test { f(); }: one pass *)
PerfCallF ==
    /\ ppc = "for" /\ pcalls < MinTest
    /\ \E d \in FSteps : tsc' = tsc + d
    /\ pcalls' = pcalls + 1
    /\ fcalls' = fcalls + 1
    /\ UNCHANGED <<region, live, retTotal, ppc, pret, pzero>>
    /\ UNCHANGED <<perfFrame, loopVars, calibVars>>

(* Mutant: the range ends one pass early. *)
PerfForDoneEarly ==
    /\ ppc = "for" /\ pcalls >= MinTest - 1
    /\ ppc' = "drop"
    /\ UNCHANGED <<tsc, region, live, retTotal, pcalls, pret, fcalls, pzero>>
    /\ UNCHANGED <<perfFrame, loopVars, calibVars>>

(* the range 0..min_test is exhausted *)
PerfForDone ==
    /\ ppc = "for" /\ pcalls >= MinTest
    /\ ppc' = "drop"
    /\ UNCHANGED <<tsc, region, live, retTotal, pcalls, pret, fcalls, pzero>>
    /\ UNCHANGED <<perfFrame, loopVars, calibVars>>

(* end of the body of the while loop: _s is dropped *)
PerfDropSample ==
    /\ ppc = "drop"
    /\ region' = DropAll(region, live)
    /\ pzero' = (pzero \/ \E i \in 1..Len(live) : GetValue(StampEnd(live[i])) = 0)
    /\ live' = <<>>
    /\ ppc' = "while"
    /\ UNCHANGED <<tsc, retTotal, pcalls, pret, fcalls>>
    /\ UNCHANGED <<perfFrame, loopVars, calibVars>>

(* return m.get_average_sample() / min_test as f32; *)
PerfReturn ==
    /\ ppc = "return"
    /\ BorrowFree
    /\ pret' = F32Div(GetAverageSample(region), U64ToF32(MinTest))
    /\ ppc' = "returned"
    /\ UNCHANGED <<tsc, region, live, retTotal, pcalls, fcalls, pzero>>
    /\ UNCHANGED <<perfFrame, loopVars, calibVars>>

NextPerf ==
    \/ PerfWhile
    \/ PerfGetSample
    \/ PerfCallF
    \/ PerfForDone
    \/ PerfDropSample
    \/ PerfReturn

(* The function is sequential code that keeps running. *)
SpecPerf == InitPerf /\ [][NextPerf]_vars /\ WF_vars(NextPerf)

(* ---- claim about measure_function_perf, checked under SpecPerf ---- *)
C10_AtReturn ==
    /\ ppc \in {"return", "returned"} =>
          /\ region.sum_samples >= MinBenchTime
          /\ region.num_samples >= 1
          /\ live = <<>>
    /\ ppc \in {"while", "sample", "return", "returned"} =>
          fcalls = MinTest * region.num_samples
    /\ ppc = "drop" => pcalls = MinTest
    /\ ppc = "returned" =>
          /\ pret.k = "fin"
          /\ pret = F32Div(F32Div(U64ToF32(region.sum_samples), U64ToF32(fcalls \div MinTest)),
                           U64ToF32(100))

C10_LoopStep ==
    /\ (ppc = "while" /\ region.sum_samples < MinBenchTime) => ppc' = "sample"
    /\ (ppc = "while" /\ ppc' = "return") => region.num_samples >= 1
    /\ (ppc = "drop" /\ tsc = live[1].start_time) =>
           (ppc' = "while" /\ region'.sum_samples = region.sum_samples)

(* C10: measure_function_perf runs its loop at least once and returns only *)
(* with a total >= 10_000_000 and at least one completed sample, every     *)
(* sample covering exactly 100 calls of f, so the value returned is not    *)
(* NaN; a sample of duration 0 leads back to the loop test with the total  *)
(* unchanged (so the loop never ends on such samples alone); and the       *)
(* function returns unless some sample has duration 0.                     *)
C10_ReturnsWithFullSamples ==
    /\ []C10_AtReturn
    /\ [][C10_LoopStep]_vars
    /\ <>(ppc = "returned" \/ pzero)

C10_Witness ==
    /\ ppc = "returned" /\ region.num_samples = MaxPerfSamples /\ ~pzero
    /\ fcalls = MinTest * MaxPerfSamples
(***************************************************************************)
(* CPUInfo::get_frequency_hz and the round trip of tests::test_tsc_scaling.*)
(* The environment is the one the round trip assumes: const_cycle_loop(c)  *)
(* takes c reference cycles, nothing else takes time, and the counter      *)
(* shows floor(reference cycles * n / d) for a fixed ratio n / d.          *)
(***************************************************************************)
MaxCalibRounds == 3
MaxPhase == 2

(* let tot_cycles = 1_000_000; *)
TotCycles == 1000000

(* Counter ticks per reference cycle: 1, 2/3, 3/2, 2. *)
Ratios == {<<1, 1>>, <<2, 3>>, <<3, 2>>, <<2, 1>>}
(* Values of ckl_cnt; the test uses 100_000_000. *)
CalibCycles == {0, 4, 40, 100, 100000000}
(* Wall-clock nanoseconds the calibration loop may take. *)
ElapsedNs == {0, 333333}

(* f32 literals: 1e9, 50_000_000f32 and 0.05f32 (= 13421773 * 2^-28) *)
F1e9 == U64ToF32(1000000000)
F50M == U64ToF32(50000000)
Accuracy == F32Fin(0, 13421773, -28)

Counter(rc) == (rc * ratio[1]) \div ratio[2]

(* Mutant: counter ticks per cycle instead of cycles per counter tick. *)
TscScalingInverted(ts_s, ts_e) == F32Div(U64ToF32(ts_e - ts_s), U64ToF32(TotCycles))

(* tot_cycles as f32 / (ts_e - ts_s) as f32 *)
TscScaling(ts_s, ts_e) == F32Div(U64ToF32(TotCycles), U64ToF32(ts_e - ts_s))

(* freq = (1e9 * tot_cycles as f32) / (time_ns as f32);                  *)
(* freq = (freq / 50_000_000f32) * 50_000_000f32;                        *)
Frequency(time_ns) ==
    F32Mul(F32Div(F32Div(F32Mul(F1e9, U64ToF32(TotCycles)), U64ToF32(time_ns)), F50M), F50M)

InitCalib ==
    /\ refc \in 0..MaxPhase
    /\ ratio \in Ratios
    /\ tsc = Counter(refc) /\ ticks = 0
    /\ region = MeasureRegionNew /\ rstate = "alive" /\ live = <<>>
    /\ cpc = "outside" /\ printed = <<>> /\ lastOp = "new"
    /\ retAvg = F32Zero(0) /\ retTotal = 0 /\ durations = <<>> /\ opened = 0
    /\ bodyWork = 0 /\ earlyDrop = FALSE /\ foldedAtEnd = FALSE
    /\ LoopIdle /\ PerfIdle
    /\ kpc = "warmup"
    /\ kcnt \in CalibCycles
    /\ krounds \in 1..MaxCalibRounds
    /\ kinfo = FreqInfoNone /\ kdelta = 0 /\ kmeasured = F32Zero(0)

calibFrame == <<ticks, rstate, cpc, printed, lastOp, retAvg, retTotal,
                bodyWork, earlyDrop, foldedAtEnd, ratio, kcnt, krounds>>

(* const_cycle_loop(ckl_cnt); // Warmup CPU *)
CalibWarmup ==
    /\ kpc = "warmup"
    /\ refc' = refc + kcnt
    /\ tsc' = Counter(refc + kcnt)
    /\ kpc' = "open"
    /\ UNCHANGED <<region, live, durations, opened, kinfo, kdelta, kmeasured>>
    /\ UNCHANGED <<calibFrame, loopVars, perfVars>>

(* let _s = loop_timing.get_sample(); *)
CalibGetSample ==
    /\ kpc = "open"
    /\ BorrowFree
    /\ live' = Append(live, MeasureSampleNew)
    /\ opened' = opened + 1
    /\ kpc' = "run"
    /\ UNCHANGED <<tsc, region, durations, refc, kinfo, kdelta, kmeasured>>
    /\ UNCHANGED <<calibFrame, loopVars, perfVars>>

(* const_cycle_loop(ckl_cnt); *)
CalibRunLoop ==
    /\ kpc = "run"
    /\ refc' = refc + kcnt
    /\ tsc' = Counter(refc + kcnt)
    /\ kpc' = "drop"
    /\ UNCHANGED <<region, live, durations, opened, kinfo, kdelta, kmeasured>>
    /\ UNCHANGED <<calibFrame, loopVars, perfVars>>

(* end of the body of the for loop: _s is dropped *)
CalibDropSample ==
    /\ kpc = "drop"
    /\ region' = DropAll(region, live)
    /\ durations' = durations \o DroppedValues(live)
    /\ live' = <<>>
    /\ kpc' = IF opened < krounds THEN "open" ELSE "calibrate"
    /\ UNCHANGED <<tsc, opened, refc, kinfo, kdelta, kmeasured>>
    /\ UNCHANGED <<calibFrame, loopVars, perfVars>>

(* let cpu_info = CPUInfo::get_frequency_hz(); *)
CalibGetFrequencyHz ==
    /\ kpc = "calibrate"
    /\ \E elapsed \in ElapsedNs :
          LET ts_s == GetTimeStamp
              r == 0
              ts_e == Counter(refc + TotCycles)
              time_ns == elapsed + r
          IN  /\ kinfo' = [frequency |-> Frequency(time_ns),
                           tsc_scaling |-> TscScaling(ts_s, ts_e)]
              /\ kdelta' = ts_e - ts_s
              /\ tsc' = ts_e
    /\ refc' = refc + TotCycles
    /\ kpc' = "compare"
    /\ UNCHANGED <<region, live, durations, opened, kmeasured>>
    /\ UNCHANGED <<calibFrame, loopVars, perfVars>>

(* measured_cycles, d and the assertion d < ckl_cnt as f32 * accuracy *)
CalibCompare ==
    /\ kpc = "compare"
    /\ BorrowFree
    /\ \E measured \in {F32Mul(GetAverageSample(region), kinfo.tsc_scaling)} :
          LET d == F32Abs(F32Sub(U64ToF32(kcnt), measured))
          IN  /\ kmeasured' = measured
              /\ kpc' = IF F32Lt(d, F32Mul(U64ToF32(kcnt), Accuracy))
                        THEN "passed" ELSE "failed"
    /\ UNCHANGED <<tsc, region, live, durations, opened, refc, kinfo, kdelta>>
    /\ UNCHANGED <<calibFrame, loopVars, perfVars>>

NextCalib ==
    \/ CalibWarmup
    \/ CalibGetSample
    \/ CalibRunLoop
    \/ CalibDropSample
    \/ CalibGetFrequencyHz
    \/ CalibCompare

SpecCalib == InitCalib /\ [][NextCalib]_vars

(* ---- claim about the calibration round trip, checked under SpecCalib ---- *)
Compared == kpc \in {"passed", "failed"}

====
